---------------------------- MODULE Spec2Model ----------------------------
(***************************************************************************)
(* A model of the community trends bot: main.py (run_twitter_bot) and      *)
(* topic_analysis.py (analyze_trending_topics, create_summary).            *)
(*                                                                         *)
(* Strings are sequences of one-character strings, so that slicing,        *)
(* lower-casing, the regular expressions and the f-string formatting are   *)
(* computed character by character.  Engagement scores are kept in tenths  *)
(* (score 7.5 is 75): every term of the formula is a multiple of 0.1, so   *)
(* the tenths are exact integers.                                          *)
(***************************************************************************)
EXTENDS Integers, Sequences, FiniteSets, TLC

(***************************************************************************)
(* Bounds of the model.                                                    *)
(***************************************************************************)
\* the longest post sequence a search returns or an analysis is given
MaxPosts == 4
\* the longest hashtag / phrase list of an AnalysisResult handed directly
\* to create_summary
MaxEntries == 6

(***************************************************************************)
(* Generic helpers.                                                        *)
(***************************************************************************)
Min(a, b) == IF a <= b THEN a ELSE b

Max(a, b) == IF a >= b THEN a ELSE b

\* Python's s[:n]
Take(s, n) == SubSeq(s, 1, Min(Len(s), n))

\* Python's s * n for a list s and n >= 0
RECURSIVE Repeat(_, _)
Repeat(s, n) == IF n <= 0 THEN <<>> ELSE s \o Repeat(s, n - 1)

\* the elements of a set of integers in ascending order
Ascending(S) ==
    [k \in 1..Cardinality(S) |-> CHOOSE i \in S : Cardinality({j \in S : j < i}) = k - 1]

\* the concatenation of a sequence of sequences
RECURSIVE Flatten(_)
Flatten(ss) == IF ss = <<>> THEN <<>> ELSE Head(ss) \o Flatten(Tail(ss))

(***************************************************************************)
(* Python values that may be None carry their type.                        *)
(***************************************************************************)
None == [type |-> "NoneType"]

Dict(f) == [type |-> "dict", items |-> f]

PyInt(n) == [type |-> "int", v |-> n]

EmptyDict == Dict([k \in {} |-> 0])

\* bool(x)
Truthy(x) ==
    CASE x.type = "NoneType" -> FALSE
      [] x.type = "int" -> x.v # 0
      [] x.type = "dict" -> DOMAIN x.items # {}

\* hasattr(obj, name)
HasAttr(obj, name) == name \in DOMAIN obj

\* d.get(key, default) on a dict
Get(d, key, default) == IF key \in DOMAIN d.items THEN d.items[key] ELSE default

(***************************************************************************)
(* Characters.                                                             *)
(***************************************************************************)
LowerLetters == <<"a", "b", "c", "d", "e", "f", "g", "h", "i", "j", "k", "l", "m",
                  "n", "o", "p", "q", "r", "s", "t", "u", "v", "w", "x", "y", "z">>

UpperLetters == <<"A", "B", "C", "D", "E", "F", "G", "H", "I", "J", "K", "L", "M",
                  "N", "O", "P", "Q", "R", "S", "T", "U", "V", "W", "X", "Y", "Z">>

DigitChars == <<"0", "1", "2", "3", "4", "5", "6", "7", "8", "9">>

Range(s) == {s[i] : i \in DOMAIN s}

WordChars == Range(LowerLetters) \cup Range(UpperLetters) \cup Range(DigitChars) \cup {"_"}

\* \w of the regular expressions
IsWordChar(c) == c \in WordChars

\* \s of the regular expressions
IsSpace(c) == c \in {" ", "\n", "\t"}

\* str.lower() of one character
LowerOf == [c \in Range(UpperLetters) |->
               LowerLetters[CHOOSE i \in DOMAIN UpperLetters : UpperLetters[i] = c]]

LowerChar(c) == IF c \in DOMAIN LowerOf THEN LowerOf[c] ELSE c

\* str.lower()
Lower(s) == [i \in DOMAIN s |-> LowerChar(s[i])]

\* code point order of the characters of the cleaned, lower-cased texts
CharOrder == <<" ">> \o DigitChars \o <<"_">> \o LowerLetters

OrdOf == [c \in Range(CharOrder) |-> CHOOSE i \in DOMAIN CharOrder : CharOrder[i] = c]

Ord(c) == OrdOf[c]

\* a < b for strings
RECURSIVE StrLess(_, _)
StrLess(a, b) ==
    IF b = <<>> THEN FALSE
    ELSE IF a = <<>> THEN TRUE
    ELSE IF Head(a) = Head(b) THEN StrLess(Tail(a), Tail(b))
    ELSE Ord(Head(a)) < Ord(Head(b))

(***************************************************************************)
(* Numbers as text.                                                        *)
(***************************************************************************)
\* f"{n}" for an integer n >= 0
RECURSIVE IntToStr(_)
IntToStr(n) == IF n < 10 THEN <<DigitChars[n + 1]>>
               ELSE IntToStr(n \div 10) \o <<DigitChars[(n % 10) + 1]>>

\* round-half-to-even of a score in tenths, the integer f"{x:.0f}" prints
RoundHalfEven(s10) ==
    LET q == s10 \div 10
        r == s10 % 10
    IN  IF r < 5 THEN q
        ELSE IF r > 5 THEN q + 1
        ELSE IF q % 2 = 0 THEN q ELSE q + 1

\* f"{x:.0f}"
FormatF0(s10) == IntToStr(RoundHalfEven(s10))

(***************************************************************************)
(* The input domain: post texts, hashtag entities and the pool of posts    *)
(* the sequences are drawn from.                                           *)
(***************************************************************************)
TextParty == <<"B", "i", "g", " ", "p", "a", "r", "t", "y", " ", "l", "o", "n", "d", "o", "n", "!", " ", "h", "t", "t", "p", "s", ":", "/", "/", "t", ".", "c", "o", "/", "x", " ", "@", "b", "o", "b", " ", "#", "N", "a", "i", "j", "a">>

\* only stop words
TextStop == <<"t", "h", "e", " ", "a", "n", "d", " ", "o", "f">>

TextShort == <<"H", "i", " ", "U", "K">>

\* 102 characters, longer than the 100 of the sample and preview slices
TextLong == <<"b", "i", "g", " ", "p", "a", "r", "t", "y", " ", "l", "o", "n", "d", "o", "n", " ",
              "h", "t", "t", "p", "s", ":", "/", "/", "t", ".", "c", "o", "/">>
            \o Repeat(<<"a", "b", "c", "/">>, 18)

\* one item of entities['hashtags']
Tag(s) == [tag |-> s]

\* 12 hashtag entities, 11 distinct tags once lower-cased
TagsMany == <<Tag(<<"N", "a", "i", "j", "a">>), Tag(<<"U", "K">>), Tag(<<"n", "a", "i", "j", "a">>),
              Tag(<<"a">>), Tag(<<"b">>), Tag(<<"c">>), Tag(<<"d">>), Tag(<<"e">>),
              Tag(<<"f">>), Tag(<<"g">>), Tag(<<"h">>), Tag(<<"i">>)>>

TagsFew == <<Tag(<<"z">>), Tag(<<"U", "k">>)>>

\* The posts of the pool, without their id.  A tweepy Tweet holds every
\* attribute, with None for a field the payload lacks; a duck-typed post may
\* lack the attribute itself.
PostPool ==
    << [text |-> TextParty,
        public_metrics |-> Dict([like_count |-> 16, retweet_count |-> 2]),
        entities |-> Dict([hashtags |-> TagsMany]),
        conversation_id |-> PyInt(1)],
       [text |-> TextLong,
        public_metrics |-> Dict([like_count |-> 10, reply_count |-> 1, quote_count |-> 7]),
        entities |-> None,
        conversation_id |-> PyInt(1)],
       [text |-> TextStop,
        entities |-> Dict([urls |-> <<>>]),
        conversation_id |-> None],
       [text |-> TextShort,
        public_metrics |-> Dict([like_count |-> 10, retweet_count |-> 0,
                                 reply_count |-> 0, quote_count |-> 0]),
        entities |-> Dict([hashtags |-> TagsFew]),
        conversation_id |-> PyInt(2)],
       [text |-> TextShort,
        public_metrics |-> None,
        entities |-> Dict([hashtags |-> TagsFew])] >>

\* the post sequence made of the pool's posts picked by choice, each with
\* its position as id
MakeTweets(choice) ==
    [i \in DOMAIN choice |->
        [a \in DOMAIN PostPool[choice[i]] \cup {"id"} |->
            IF a = "id" THEN i ELSE PostPool[choice[i]][a]]]

PostSequences ==
    UNION {{MakeTweets(choice) : choice \in [1..n -> DOMAIN PostPool]} : n \in 0..MaxPosts}

(***************************************************************************)
(* Engagement extractor: the score, at its two call sites, the threshold   *)
(* and the hashtag weight.  Scores are in tenths.                          *)
(***************************************************************************)
\* metrics.get raises AttributeError when public_metrics is None
MetricsRaise(tweet) ==
    HasAttr(tweet, "public_metrics") /\ tweet.public_metrics.type # "dict"

\* topic_analysis.py: engagement_score of analyze_trending_topics
AnalyzerScore(tweet) ==
    IF HasAttr(tweet, "public_metrics")
    THEN LET metrics == tweet.public_metrics
             like_count == Get(metrics, "like_count", 0)
             retweet_count == Get(metrics, "retweet_count", 0)
             reply_count == Get(metrics, "reply_count", 0)
             quote_count == Get(metrics, "quote_count", 0)
         IN  10 * like_count + (retweet_count * 20) + (reply_count * 15) + (quote_count * 18)
    ELSE 0

\* main.py: engagement_score of run_twitter_bot
MainScore(tweet) ==
    IF HasAttr(tweet, "public_metrics")
    THEN LET metrics == tweet.public_metrics
         IN  10 * Get(metrics, "like_count", 0)
             + Get(metrics, "retweet_count", 0) * 20
             + Get(metrics, "reply_count", 0) * 15
             + Get(metrics, "quote_count", 0) * 18
    ELSE 0

\* engagement_score > 10
IsHighEngagement(engagement_score) == engagement_score > 100

\* a variant: every hashtag counts once, whatever the engagement
HashtagWeightPresence(engagement_score) == 1

\* int(max(1, engagement_score/10))
HashtagWeight(engagement_score) ==
    IF engagement_score < 100 THEN 1 ELSE engagement_score \div 100

(***************************************************************************)
(* Sorting and counting.                                                   *)
(***************************************************************************)
\* Python's order of key tuples (a, b)
KeyGreater(k1, k2) == k1[1] > k2[1] \/ (k1[1] = k2[1] /\ k1[2] > k2[2])

\* sorted, a list of <<key, element>>, with x inserted before the first
\* entry of smaller key: one step of a stable descending sort
InsertDesc(sorted, x) ==
    LET before == {i \in DOMAIN sorted : KeyGreater(x[1], sorted[i][1])}
        at == IF before = {} THEN Len(sorted) + 1
              ELSE CHOOSE i \in before : \A j \in before : i <= j
    IN  SubSeq(sorted, 1, at - 1) \o <<x>> \o SubSeq(sorted, at, Len(sorted))

\* sorted(s, key=..., reverse=True) with keys[i] the key of s[i]:
\* descending, elements of equal key in their order in s
SortDesc(s, keys) ==
    LET f[n \in 0..Len(s)] ==
            IF n = 0 THEN <<>> ELSE InsertDesc(f[n - 1], <<keys[n], s[n]>>)
    IN  [i \in DOMAIN s |-> f[Len(s)][i][2]]

\* the (element, count) items of Counter(list), in first-encountered order
CountOf(list, x) == <<x, Cardinality({j \in DOMAIN list : list[j] = x})>>

Counter(list) ==
    LET first == {i \in DOMAIN list : \A j \in 1..(i - 1) : list[j] # list[i]}
        order == Ascending(first)
    IN  [k \in DOMAIN order |-> CountOf(list, list[order[k]])]

\* the sort key of (label, count) items: the count
CountKeys(items) == [i \in DOMAIN items |-> <<items[i][2], 0>>]

\* a variant: tags of equal count come out last-encountered first
MostCommonLastFirst(items, n) ==
    LET reversed == [i \in DOMAIN items |-> items[Len(items) + 1 - i]]
    IN  Take(SortDesc(reversed, CountKeys(reversed)), n)

\* Counter.most_common(n): heapq.nlargest, which is
\* sorted(items, key=count, reverse=True)[:n]
MostCommon(items, n) == Take(SortDesc(items, CountKeys(items)), n)

(***************************************************************************)
(* Phrase mining: the cleaning regular expressions and CountVectorizer     *)
(* (ngram_range=(2, 3), stop_words='english', min_df=2).                   *)
(***************************************************************************)
\* the end of the run of \S characters that starts at j
NonSpaceRunEnd(text, j) ==
    LET spaces == {k \in j..Len(text) : IsSpace(text[k])}
    IN  IF spaces = {} THEN Len(text)
        ELSE (CHOOSE k \in spaces : \A m \in spaces : k <= m) - 1

\* the end of the match of http\S+|@\S+|#\S+ at i, 0 when there is none
TokenMatchEnd(text, i) ==
    IF /\ i + 4 <= Len(text)
       /\ SubSeq(text, i, i + 3) = <<"h", "t", "t", "p">>
       /\ ~IsSpace(text[i + 4])
    THEN NonSpaceRunEnd(text, i + 4)
    ELSE IF /\ text[i] \in {"@", "#"}
            /\ i + 1 <= Len(text)
            /\ ~IsSpace(text[i + 1])
    THEN NonSpaceRunEnd(text, i + 1)
    ELSE 0

\* re.sub(r'http\S+|@\S+|#\S+', '', text), from position i on: the text up
\* to the leftmost match is kept, the match dropped
RECURSIVE StripTokens(_, _)
StripTokens(text, i) ==
    LET starts == {k \in i..Len(text) : TokenMatchEnd(text, k) > 0}
    IN  IF starts = {} THEN SubSeq(text, i, Len(text))
        ELSE LET m == CHOOSE k \in starts : \A j \in starts : k <= j
             IN  SubSeq(text, i, m - 1) \o StripTokens(text, TokenMatchEnd(text, m) + 1)

KeptChar(c) == IsWordChar(c) \/ IsSpace(c)

\* the two substitutions of the cleaning loop
CleanText(text) == SelectSeq(StripTokens(text, 1), KeptChar)

\* the end of the run of \w characters that starts at j
WordRunEnd(text, j) ==
    LET others == {k \in j..Len(text) : ~IsWordChar(text[k])}
    IN  IF others = {} THEN Len(text)
        ELSE (CHOOSE k \in others : \A m \in others : k <= m) - 1

AtLeastTwo(w) == Len(w) >= 2

\* the matches of the token pattern \b\w\w+\b: the maximal runs of \w
\* characters, those of two characters or more, in the order of the text
Tokenize(text) ==
    LET starts == {k \in DOMAIN text :
                      IsWordChar(text[k]) /\ (k = 1 \/ ~IsWordChar(text[k - 1]))}
        order == Ascending(starts)
        runs == [k \in DOMAIN order |-> SubSeq(text, order[k], WordRunEnd(text, order[k]))]
    IN  SelectSeq(runs, AtLeastTwo)

\* the words of the english stop word list that the texts of the pool use
StopWords == {<<"t", "h", "e">>, <<"a", "n", "d">>, <<"o", "f">>,
              <<"i", "n">>, <<"t", "o">>, <<"i", "s">>}

NotStopWord(w) == w \notin StopWords

\* ' '.join(tokens)
RECURSIVE JoinWords(_)
JoinWords(tokens) ==
    IF Len(tokens) = 1 THEN tokens[1]
    ELSE tokens[1] \o <<" ">> \o JoinWords(Tail(tokens))

\* the word n-grams of n words
NGrams(tokens, n) ==
    [i \in 1..Max(0, Len(tokens) - n + 1) |-> JoinWords(SubSeq(tokens, i, i + n - 1))]

\* the analyzer of the vectorizer: lower-case, tokenize, drop the stop words,
\* the 2-grams then the 3-grams
AnalyzeDoc(doc) ==
    LET tokens == SelectSeq(Tokenize(Lower(doc)), NotStopWord)
    IN  NGrams(tokens, 2) \o NGrams(tokens, 3)

\* the strings of a set in ascending order
RECURSIVE SortedStrings(_)
SortedStrings(S) ==
    IF S = {} THEN <<>>
    ELSE LET least == CHOOSE x \in S : \A y \in S : ~StrLess(y, x)
         IN  <<least>> \o SortedStrings(S \ {least})

\* the number of elements of s equal to x
Occurrences(s, x) == Cardinality({i \in DOMAIN s : s[i] = x})

RECURSIVE Sum(_)
Sum(s) == IF s = <<>> THEN 0 ELSE Head(s) + Sum(Tail(s))

\* the try block of analyze_trending_topics: fit_transform raises ValueError
\* on an empty vocabulary and when min_df leaves no term; else the phrases
\* sorted by count, top 10
ExtractPhrases(cleaned_texts) ==
    LET docs == [i \in DOMAIN cleaned_texts |-> AnalyzeDoc(cleaned_texts[i])]
        vocabulary == UNION {Range(docs[i]) : i \in DOMAIN docs}
        df(f) == Cardinality({i \in DOMAIN docs : f \in Range(docs[i])})
        kept == {f \in vocabulary : df(f) >= 2}
        all_features == SortedStrings(kept)
        phrase_counts == [i \in DOMAIN all_features |->
                             Sum([d \in DOMAIN docs |-> Occurrences(docs[d], all_features[i])])]
        phrases == [i \in DOMAIN all_features |-> <<all_features[i], phrase_counts[i]>>]
    IN  IF kept = {}
        THEN [raised |-> TRUE, top_phrases |-> <<>>]
        ELSE [raised |-> FALSE, top_phrases |-> Take(SortDesc(phrases, CountKeys(phrases)), 10)]

(***************************************************************************)
(* create_summary.  An emoji is one character.                             *)
(***************************************************************************)
ChartEmoji == "U+1F4CA"

FireEmoji == "U+1F525"

SpeechEmoji == "U+1F4AC"

SpeakingEmoji == "U+1F5E3"

StarEmoji == "U+2B50"

HeaderTitle == <<" ", "N", "i", "g", "e", "r", "i", "a", "n", " ", "U", "K", " ", "C", "o", "m", "m", "u", "n", "i", "t", "y", " ", "T", "r", "e", "n", "d", "s", ":", " ">>

HashtagsTitle == <<" ", "T", "o", "p", " ", "H", "a", "s", "h", "t", "a", "g", "s", ":", "\n">>

PhrasesTitle == <<" ", "T", "r", "e", "n", "d", "i", "n", "g", " ", "T", "o", "p", "i", "c", "s", ":", "\n">>

DiscussionsTitle == <<" ", "M", "o", "s", "t", " ", "A", "c", "t", "i", "v", "e", " ", "D", "i", "s", "c", "u", "s", "s", "i", "o", "n", "s", ":", "\n">>

EngagingTitle == <<" ", "M", "o", "s", "t", " ", "E", "n", "g", "a", "g", "i", "n", "g", " ", "T", "w", "e", "e", "t", ":", "\n">>

WeightedMentions == <<" ", "w", "e", "i", "g", "h", "t", "e", "d", " ", "m", "e", "n", "t", "i", "o", "n", "s", ")", "\n">>

Mentions == <<" ", "m", "e", "n", "t", "i", "o", "n", "s", ")", "\n">>

Replies == <<" ", "r", "e", "p", "l", "i", "e", "s", ",", " ">>

EngagementSuffix == <<" ", "e", "n", "g", "a", "g", "e", "m", "e", "n", "t", ")", "\n">>

EngagementScoreLabel == <<"E", "n", "g", "a", "g", "e", "m", "e", "n", "t", " ", "s", "c", "o", "r", "e", ":", " ">>

ActivityPrefix == <<"T", "o", "d", "a", "y", "'", "s", " ", "a", "c", "t", "i", "v", "i", "t", "y", ":", " ">>

ActivitySuffix == <<" ", "t", "w", "e", "e", "t", "s", " ", "a", "n", "a", "l", "y", "z", "e", "d", " ", "f", "r", "o", "m", " ", "N", "i", "g", "e", "r", "i", "a", "n", "s", " ", "i", "n", " ", "t", "h", "e", " ", "U", "K">>

\* datetime.now().strftime("%Y-%m-%d") on the day of the run
current_date == <<"2", "0", "2", "6", "-", "1", "1", "-", "0", "6">>

\* summary = f"... Nigerian UK Community Trends: {current_date} ...\n\n"
SummaryHeader == <<ChartEmoji>> \o HeaderTitle \o current_date \o <<" ", ChartEmoji, "\n", "\n">>

\* a variant: the position is printed in place of the count
HashtagLinePosition(i, item) ==
    IntToStr(i) \o <<".", " ", "#">> \o item[1] \o <<" ", "(">> \o IntToStr(i) \o WeightedMentions

\* f"{i}. #{hashtag} ({count} weighted mentions)\n"
HashtagLine(i, item) ==
    IntToStr(i) \o <<".", " ", "#">> \o item[1] \o <<" ", "(">> \o IntToStr(item[2]) \o WeightedMentions

\* a variant: the block is written for an empty list too
HashtagSectionAlways(hashtags) ==
    LET shown == Take(hashtags, 5)
    IN  <<FireEmoji>> \o HashtagsTitle
        \o Flatten([i \in DOMAIN shown |-> HashtagLine(i, shown[i])]) \o <<"\n">>

\* the trending hashtags block
HashtagSection(hashtags) ==
    IF hashtags = <<>> THEN <<>>
    ELSE LET shown == Take(hashtags, 5)
         IN  <<FireEmoji>> \o HashtagsTitle
             \o Flatten([i \in DOMAIN shown |-> HashtagLine(i, shown[i])]) \o <<"\n">>

\* f"{i}. {phrase} ({count} mentions)\n"
PhraseLine(i, item) ==
    IntToStr(i) \o <<".", " ">> \o item[1] \o <<" ", "(">> \o IntToStr(item[2]) \o Mentions

\* the trending phrases block
PhraseSection(phrases) ==
    IF phrases = <<>> THEN <<>>
    ELSE LET shown == Take(phrases, 5)
         IN  <<SpeechEmoji>> \o PhrasesTitle
             \o Flatten([i \in DOMAIN shown |-> PhraseLine(i, shown[i])]) \o <<"\n">>

\* f"{i}. \"{preview}...\" ({data['count']} replies, {data['engagement']:.0f} engagement)\n"
DiscussionLine(i, item) ==
    LET data == item[2]
        preview == data.sample_text
    IN  IntToStr(i) \o <<".", " ", "\"">> \o preview \o <<".", ".", ".", "\"", " ", "(">>
        \o IntToStr(data.count) \o Replies \o FormatF0(data.engagement) \o EngagementSuffix

\* the top conversations block
DiscussionSection(analysis_results) ==
    IF "top_conversations" \in DOMAIN analysis_results
       /\ analysis_results.top_conversations # <<>>
    THEN LET shown == Take(analysis_results.top_conversations, 3)
         IN  <<SpeakingEmoji>> \o DiscussionsTitle
             \o Flatten([i \in DOMAIN shown |-> DiscussionLine(i, shown[i])]) \o <<"\n">>
    ELSE <<>>

\* the high engagement tweet block
EngagingSection(analysis_results) ==
    IF "high_engagement" \in DOMAIN analysis_results
       /\ analysis_results.high_engagement # <<>>
    THEN LET top_tweet == analysis_results.high_engagement[1]
             preview == IF Len(top_tweet.text) > 100
                        THEN Take(top_tweet.text, 100) \o <<".", ".", ".">>
                        ELSE top_tweet.text
         IN  <<StarEmoji>> \o EngagingTitle
             \o <<"\"">> \o preview \o <<"\"", "\n">>
             \o EngagementScoreLabel \o FormatF0(top_tweet.engagement) \o <<"\n", "\n">>
    ELSE <<>>

\* f"Today's activity: {tweet_count} tweets analyzed from Nigerians in the UK"
SummaryFooter(tweet_count) == ActivityPrefix \o IntToStr(tweet_count) \o ActivitySuffix

\* a variant: the phrases block comes before the hashtags block
create_summary_swapped(analysis_results, tweet_count) ==
    SummaryHeader
    \o PhraseSection(analysis_results.phrases)
    \o HashtagSection(analysis_results.hashtags)
    \o DiscussionSection(analysis_results)
    \o EngagingSection(analysis_results)
    \o SummaryFooter(tweet_count)

create_summary(analysis_results, tweet_count) ==
    SummaryHeader
    \o HashtagSection(analysis_results.hashtags)
    \o PhraseSection(analysis_results.phrases)
    \o DiscussionSection(analysis_results)
    \o EngagingSection(analysis_results)
    \o SummaryFooter(tweet_count)

(***************************************************************************)
(* The body of the per-post loops.                                         *)
(***************************************************************************)
\* the entry appended to a high engagement list
HighEngagementEntry(tweet, engagement_score) ==
    [text |-> tweet.text, engagement |-> engagement_score, id |-> tweet.id]

\* analyze_trending_topics: store high engagement tweets
AnalyzerStoreHighEngagement(list, tweet, engagement_score) ==
    IF IsHighEngagement(engagement_score)
    THEN Append(list, HighEngagementEntry(tweet, engagement_score))
    ELSE list

\* a variant: the threshold is inclusive
StoreHighEngagementInclusive(list, tweet, engagement_score) ==
    IF engagement_score >= 100
    THEN Append(list, HighEngagementEntry(tweet, engagement_score))
    ELSE list

\* run_twitter_bot: store high engagement tweets
StoreHighEngagement(list, tweet, engagement_score) ==
    IF engagement_score > 100
    THEN Append(list, HighEngagementEntry(tweet, engagement_score))
    ELSE list

\* a variant: every post of a thread overwrites the sample text
UpdateBucketOverwrite(convs, convo_id, tweet, engagement_score) ==
    IF \E i \in DOMAIN convs : convs[i][1] = convo_id
    THEN [i \in DOMAIN convs |->
             IF convs[i][1] = convo_id
             THEN <<convo_id, [count |-> convs[i][2].count + 1,
                               engagement |-> convs[i][2].engagement + engagement_score,
                               sample_text |-> Take(tweet.text, 100)]>>
             ELSE convs[i]]
    ELSE Append(convs, <<convo_id, [count |-> 1,
                                    engagement |-> engagement_score,
                                    sample_text |-> Take(tweet.text, 100)]>>)

\* A dict of conversations is the list of its (convo_id, bucket) items in
\* insertion order.  The bucket update of both loops:
UpdateBucket(convs, convo_id, tweet, engagement_score) ==
    IF \E i \in DOMAIN convs : convs[i][1] = convo_id
    THEN [i \in DOMAIN convs |->
             IF convs[i][1] = convo_id
             THEN <<convo_id, [count |-> convs[i][2].count + 1,
                               engagement |-> convs[i][2].engagement + engagement_score,
                               sample_text |-> convs[i][2].sample_text]>>
             ELSE convs[i]]
    ELSE Append(convs, <<convo_id, [count |-> 1,
                                    engagement |-> engagement_score,
                                    sample_text |-> Take(tweet.text, 100)]>>)

\* analyze_trending_topics: track conversation threads
AnalyzerTrackConversation(convs, tweet, engagement_score) ==
    IF HasAttr(tweet, "conversation_id") /\ Truthy(tweet.conversation_id)
    THEN UpdateBucket(convs, tweet.conversation_id.v, tweet, engagement_score)
    ELSE convs

\* run_twitter_bot: track conversation threads
TrackConversation(convs, tweet, engagement_score) ==
    IF HasAttr(tweet, "conversation_id") /\ Truthy(tweet.conversation_id)
    THEN UpdateBucket(convs, tweet.conversation_id.v, tweet, engagement_score)
    ELSE convs

\* analyze_trending_topics: the weighted hashtags one post adds to all_hashtags
WeightedHashtags(tweet, engagement_score) ==
    IF /\ HasAttr(tweet, "entities")
       /\ Truthy(tweet.entities)
       /\ "hashtags" \in DOMAIN tweet.entities.items
    THEN LET entity == tweet.entities.items.hashtags
             hashtags == [i \in DOMAIN entity |-> Lower(entity[i].tag)]
             weight == HashtagWeight(engagement_score)
         IN  Repeat(hashtags, weight)
    ELSE <<>>


\* the cleaning loop over tweet_texts
CleanedTexts(texts) == [i \in DOMAIN texts |-> CleanText(texts[i])]

\* high_engagement_tweets.sort(key=lambda x: x['engagement'], reverse=True)
SortByEngagement(list) ==
    SortDesc(list, [i \in DOMAIN list |-> <<list[i].engagement, 0>>])

\* sorted(top_conversations.items(), key=(count, engagement), reverse=True)[:5]
TopConversations(convs) ==
    Take(SortDesc(convs, [i \in DOMAIN convs |-> <<convs[i][2].count, convs[i][2].engagement>>]), 5)

(***************************************************************************)
(* Inputs of a direct call of create_summary.                              *)
(***************************************************************************)
BaseHashtags ==
    << <<<<"n", "a", "i", "j", "a">>, 120>>, <<<<"u", "k">>, 35>>, <<<<"j", "a", "p", "a">>, 10>>,
       <<<<"a", "_", "1">>, 9>>, <<<<"b">>, 9>>, <<<<"c">>, 2>>, <<<<"d">>, 1>>, <<<<"e">>, 1>> >>

BasePhrases ==
    << <<<<"b", "i", "g", " ", "p", "a", "r", "t", "y">>, 18>>,
       <<<<"b", "i", "g", " ", "p", "a", "r", "t", "y", " ", "l", "o", "n", "d", "o", "n">>, 10>>,
       <<<<"p", "a", "r", "t", "y", " ", "l", "o", "n", "d", "o", "n">>, 7>>,
       <<<<"u", "k", " ", "v", "i", "s", "a">>, 4>>,
       <<<<"n", "e", "w", " ", "j", "o", "b">>, 4>>,
       <<<<"h", "o", "m", "e", " ", "o", "f", "f", "i", "c", "e">>, 3>>,
       <<<<"j", "o", "l", "l", "o", "f", " ", "r", "i", "c", "e">>, 2>>,
       <<<<"r", "e", "n", "t", " ", "r", "i", "s", "e">>, 2>> >>

BaseConversations ==
    << <<1, [count |-> 3, engagement |-> 455, sample_text |-> Take(TextLong, 100)]>>,
       <<2, [count |-> 2, engagement |-> 125, sample_text |-> TextShort]>>,
       <<3, [count |-> 1, engagement |-> 141, sample_text |-> TextParty]>>,
       <<4, [count |-> 1, engagement |-> 0, sample_text |-> TextStop]>> >>

BaseHighEngagement ==
    << <<[text |-> TextLong, engagement |-> 241, id |-> 1],
         [text |-> TextShort, engagement |-> 135, id |-> 2]>>,
       <<[text |-> TextShort, engagement |-> 135, id |-> 2]>>,
       <<>> >>

Prefixes(base) == {SubSeq(base, 1, n) : n \in 0..Min(MaxEntries, Len(base))}

\* the AnalysisResult mappings handed to create_summary: the two lists
\* always, the two keys run_twitter_bot adds optionally
SummaryInputs ==
    LET core == {[hashtags |-> h, phrases |-> p] :
                    h \in Prefixes(BaseHashtags), p \in Prefixes(BasePhrases)}
        convs == {SubSeq(BaseConversations, 1, n) : n \in 0..Len(BaseConversations)}
        highs == Range(BaseHighEngagement)
    IN  core
        \cup {[hashtags |-> r.hashtags, phrases |-> r.phrases,
               top_conversations |-> c, high_engagement |-> g] :
                 r \in core, c \in convs, g \in highs}

(***************************************************************************)
(* The state.                                                              *)
(***************************************************************************)
\* max_retries = 3
max_retries == 3

\* retry_delay = 15
InitialRetryDelay == 15

FallbackMessage == <<"T", "o", "d", "a", "y", "'", "s", " ", "N", "i", "g", "e", "r", "i", "a", "n", " ", "U", "K", " ", "c", "o", "m", "m", "u", "n", "i", "t", "y", " ", "u", "p", "d", "a", "t", "e", ":", " ", "N", "o", "t", " ", "e", "n", "o", "u", "g", "h", " ", "d", "a", "t", "a", " ", "a", "v", "a", "i", "l", "a", "b", "l", "e", " ", "t", "o", "d", "a", "y", ".", " ", "W", "i", "l", "l", " ", "t", "r", "y", " ", "a", "g", "a", "i", "n", " ", "t", "o", "m", "o", "r", "r", "o", "w", "!">>

\* the object search_recent_tweets returns, and EmptyData(data=[])
Response(data) == [type |-> "Response", data |-> data]

NoResult == [hashtags |-> <<>>, phrases |-> <<>>]

VARIABLES
    entry,      \* the function called: run_twitter_bot, analyze_trending_topics, create_summary
    pc,         \* the position in it
    tweet_data, retry_count, retry_delay,   \* run_twitter_bot: the collection loop
    attempts,   \* the number of search_recent_tweets calls made
    outcomes,   \* what each of them did: the posts returned or the exception raised
    sleeps,     \* the time.sleep calls made, in order
    tweets,     \* tweets.data
    idx,        \* the position of the running for loop in tweets.data
    all_hashtags, tweet_texts,              \* analyze_trending_topics: locals
    a_high_engagement_tweets, a_top_conversations, hashtag_counts, top_hashtags,
    a_scores,   \* the engagement_score analyze_trending_topics computed per post
    mining,     \* the way phrase mining ended: none, skipped, ok, raised
    analysis_results,
    high_engagement_tweets, top_conversations,   \* run_twitter_bot: locals
    m_scores,   \* the engagement_score run_twitter_bot computed per post
    tweet_count, summary,
    posted,     \* the texts of the create_tweet calls made, in order
    saved       \* the daily snapshots whose write was started

vars == <<entry, pc, tweet_data, retry_count, retry_delay, attempts, sleeps,
          tweets, idx, all_hashtags, tweet_texts, a_high_engagement_tweets,
          a_top_conversations, hashtag_counts, top_hashtags, a_scores, mining,
          analysis_results, outcomes,
          high_engagement_tweets, top_conversations, m_scores, tweet_count, summary,
          posted, saved>>

collectVars == <<tweet_data, retry_count, retry_delay, attempts, outcomes, sleeps>>

analyzerVars == <<all_hashtags, tweet_texts, a_high_engagement_tweets,
                  a_top_conversations, hashtag_counts, top_hashtags, a_scores, mining>>

mainVars == <<high_engagement_tweets, top_conversations, m_scores>>

outVars == <<summary, posted, saved>>

InitLocals ==
    /\ tweet_data = None
    /\ retry_count = 0
    /\ retry_delay = InitialRetryDelay
    /\ attempts = 0
    /\ outcomes = <<>>
    /\ sleeps = <<>>
    /\ idx = 1
    /\ all_hashtags = <<>>
    /\ tweet_texts = <<>>
    /\ a_high_engagement_tweets = <<>>
    /\ a_top_conversations = <<>>
    /\ hashtag_counts = <<>>
    /\ top_hashtags = <<>>
    /\ a_scores = <<>>
    /\ mining = "none"
    /\ high_engagement_tweets = <<>>
    /\ top_conversations = <<>>
    /\ m_scores = <<>>
    /\ summary = <<>>
    /\ posted = <<>>
    /\ saved = <<>>

\* run_twitter_bot is started
InitBot ==
    /\ entry = "run_twitter_bot"
    /\ pc = "collect"
    /\ tweets = <<>>
    /\ tweet_count = 0
    /\ analysis_results = NoResult

\* analyze_trending_topics is called with a post sequence, and
\* create_summary with its result and the number of posts
InitAnalyze ==
    /\ entry = "analyze_trending_topics"
    /\ pc = "analyze"
    /\ tweets \in PostSequences
    /\ tweet_count = Len(tweets)
    /\ analysis_results = NoResult

\* create_summary is called with an AnalysisResult and a count
InitSummary ==
    /\ entry = "create_summary"
    /\ pc = "summary"
    /\ tweets = <<>>
    /\ tweet_count \in {0, 12}
    /\ analysis_results \in SummaryInputs

Init == InitLocals /\ (InitBot \/ InitAnalyze \/ InitSummary)

(***************************************************************************)
(* run_twitter_bot: the collection loop.                                   *)
(***************************************************************************)
\* a variant: the loop sleeps after the last rate-limited attempt too
AttemptSleepAlways(outcome, data) ==
    CASE outcome = "ok" ->
           [tweet_data |-> Response(data), retry_count |-> retry_count,
            retry_delay |-> retry_delay, slept |-> <<>>, break |-> TRUE]
      [] outcome = "TooManyRequests" ->
           IF retry_count + 1 < max_retries
           THEN [tweet_data |-> tweet_data, retry_count |-> retry_count + 1,
                 retry_delay |-> retry_delay * 2, slept |-> <<retry_delay>>, break |-> FALSE]
           ELSE [tweet_data |-> Response(<<>>), retry_count |-> retry_count + 1,
                 retry_delay |-> retry_delay * 2, slept |-> <<retry_delay>>, break |-> FALSE]
      [] outcome = "Exception" ->
           [tweet_data |-> Response(<<>>), retry_count |-> retry_count,
            retry_delay |-> retry_delay, slept |-> <<>>, break |-> TRUE]

\* the value of tweet_data, retry_count, retry_delay after one iteration of
\* the while loop, with the time slept and whether the loop is left by break
Attempt(outcome, data) ==
    CASE outcome = "ok" ->
           [tweet_data |-> Response(data), retry_count |-> retry_count,
            retry_delay |-> retry_delay, slept |-> <<>>, break |-> TRUE]
      [] outcome = "TooManyRequests" ->
           IF retry_count + 1 < max_retries
           THEN [tweet_data |-> tweet_data, retry_count |-> retry_count + 1,
                 retry_delay |-> retry_delay * 2, slept |-> <<retry_delay>>, break |-> FALSE]
           ELSE [tweet_data |-> Response(<<>>), retry_count |-> retry_count + 1,
                 retry_delay |-> retry_delay, slept |-> <<>>, break |-> FALSE]
      [] outcome = "Exception" ->
           [tweet_data |-> Response(<<>>), retry_count |-> retry_count,
            retry_delay |-> retry_delay, slept |-> <<>>, break |-> TRUE]

\* what a search_recent_tweets call does: it returns the posts found, or
\* raises TooManyRequests or another exception
SearchOutcomes ==
    {[kind |-> "ok", data |-> d] : d \in PostSequences}
    \cup {[kind |-> k, data |-> <<>>] : k \in {"TooManyRequests", "Exception"}}

\* while retry_count < max_retries and tweet_data is None
LoopCondition(count, data) == count < max_retries /\ data = None

\* one iteration of the while loop: a search_recent_tweets call and its handler
SearchAttempt ==
    /\ pc = "collect"
    /\ LoopCondition(retry_count, tweet_data)
    /\ \E outcome \in SearchOutcomes :
          LET r == Attempt(outcome.kind, outcome.data)
          IN  /\ tweet_data' = r.tweet_data
              /\ retry_count' = r.retry_count
              /\ retry_delay' = r.retry_delay
              /\ sleeps' = sleeps \o r.slept
              /\ attempts' = attempts + 1
              /\ outcomes' = Append(outcomes, outcome)
              /\ pc' = IF r.break \/ ~LoopCondition(r.retry_count, r.tweet_data)
                       THEN "collected" ELSE "collect"
    /\ UNCHANGED <<entry, tweets, idx, analyzerVars, analysis_results,
                   mainVars, tweet_count, outVars>>

\* if not hasattr(tweets, 'data') or not tweets.data
NoTweets(data) == ~HasAttr(data, "data") \/ data.data = <<>>

\* the fallback branch: one create_tweet call (an exception it raises is
\* caught and printed) and return
PostFallback ==
    /\ pc = "collected"
    /\ NoTweets(tweet_data)
    /\ posted' = Append(posted, FallbackMessage)
    /\ tweet_count' = 0
    /\ pc' = "done"
    /\ UNCHANGED <<entry, collectVars, tweets, idx, analyzerVars,
                   analysis_results, mainVars, summary, saved>>

\* tweet_count = len(tweets.data); analyze_trending_topics(tweets) is called
BeginAnalysis ==
    /\ pc = "collected"
    /\ ~NoTweets(tweet_data)
    /\ tweets' = tweet_data.data
    /\ tweet_count' = Len(tweet_data.data)
    /\ idx' = 1
    /\ pc' = "analyze"
    /\ UNCHANGED <<entry, collectVars, analyzerVars, analysis_results,
                   mainVars, outVars>>

(***************************************************************************)
(* analyze_trending_topics.                                                *)
(***************************************************************************)
\* one iteration of the loop over tweets.data; metrics.get on None raises
\* AttributeError, which nothing catches
AnalyzePost ==
    /\ pc = "analyze"
    /\ idx <= Len(tweets)
    /\ LET tweet == tweets[idx]
       IN  IF MetricsRaise(tweet)
           THEN /\ tweet_texts' = Append(tweet_texts, tweet.text)
                /\ pc' = "crashed"
                /\ UNCHANGED <<idx, all_hashtags, a_high_engagement_tweets,
                               a_top_conversations, a_scores>>
           ELSE LET engagement_score == AnalyzerScore(tweet)
                IN  /\ tweet_texts' = Append(tweet_texts, tweet.text)
                    /\ a_scores' = Append(a_scores, engagement_score)
                    /\ a_high_engagement_tweets' =
                          AnalyzerStoreHighEngagement(a_high_engagement_tweets, tweet, engagement_score)
                    /\ a_top_conversations' =
                          AnalyzerTrackConversation(a_top_conversations, tweet, engagement_score)
                    /\ all_hashtags' = all_hashtags \o WeightedHashtags(tweet, engagement_score)
                    /\ idx' = idx + 1
                    /\ pc' = "analyze"
    /\ UNCHANGED <<entry, collectVars, tweets, hashtag_counts, top_hashtags, mining,
                   analysis_results, mainVars, tweet_count, outVars>>

\* after the loop: the Counter and most_common(10)
TallyHashtags ==
    /\ pc = "analyze"
    /\ idx > Len(tweets)
    /\ hashtag_counts' = Counter(all_hashtags)
    /\ top_hashtags' = MostCommon(hashtag_counts', 10)
    /\ pc' = "mine"
    /\ UNCHANGED <<entry, collectVars, tweets, idx, all_hashtags, tweet_texts,
                   a_high_engagement_tweets, a_top_conversations, a_scores, mining,
                   analysis_results, mainVars, tweet_count, outVars>>

\* a variant: the except branch returns no hashtags either
MineResultDropsHashtags(texts, hashtags) ==
    LET cleaned_texts == CleanedTexts(texts)
    IN  IF Len(cleaned_texts) < 2
        THEN [mining |-> "skipped", result |-> [hashtags |-> hashtags, phrases |-> <<>>]]
        ELSE LET x == ExtractPhrases(cleaned_texts)
             IN  IF x.raised
                 THEN [mining |-> "raised",
                       result |-> [hashtags |-> <<>>, phrases |-> <<>>]]
                 ELSE [mining |-> "ok",
                       result |-> [hashtags |-> hashtags, phrases |-> x.top_phrases]]

\* the dict analyze_trending_topics returns, with the way mining ended
MineResult(texts, hashtags) ==
    LET cleaned_texts == CleanedTexts(texts)
    IN  IF Len(cleaned_texts) < 2
        THEN [mining |-> "skipped", result |-> [hashtags |-> hashtags, phrases |-> <<>>]]
        ELSE LET x == ExtractPhrases(cleaned_texts)
             IN  IF x.raised
                 THEN [mining |-> "raised",
                       result |-> [hashtags |-> hashtags, phrases |-> <<>>]]
                 ELSE [mining |-> "ok",
                       result |-> [hashtags |-> hashtags, phrases |-> x.top_phrases]]

\* cleaning, the size check, phrase extraction and the return
MinePhrases ==
    /\ pc = "mine"
    /\ LET r == MineResult(tweet_texts, top_hashtags)
       IN  /\ mining' = r.mining
           /\ analysis_results' = r.result
    /\ idx' = 1
    /\ pc' = IF entry = "run_twitter_bot" THEN "engagement" ELSE "summary"
    /\ UNCHANGED <<entry, collectVars, tweets, all_hashtags, tweet_texts,
                   a_high_engagement_tweets, a_top_conversations, hashtag_counts,
                   top_hashtags, a_scores, mainVars, tweet_count, outVars>>

(***************************************************************************)
(* run_twitter_bot after the analysis.                                     *)
(***************************************************************************)
\* one iteration of the loop over tweets.data
ProcessTweet ==
    /\ pc = "engagement"
    /\ idx <= Len(tweets)
    /\ LET tweet == tweets[idx]
       IN  IF MetricsRaise(tweet)
           THEN /\ pc' = "crashed"
                /\ UNCHANGED <<idx, mainVars>>
           ELSE LET engagement_score == MainScore(tweet)
                IN  /\ m_scores' = Append(m_scores, engagement_score)
                    /\ high_engagement_tweets' =
                          StoreHighEngagement(high_engagement_tweets, tweet, engagement_score)
                    /\ top_conversations' =
                          TrackConversation(top_conversations, tweet, engagement_score)
                    /\ idx' = idx + 1
                    /\ pc' = "engagement"
    /\ UNCHANGED <<entry, collectVars, tweets, analyzerVars, analysis_results,
                   tweet_count, outVars>>

\* after the loop: the two sorts and the two keys added to analysis_results
SortAndStore ==
    /\ pc = "engagement"
    /\ idx > Len(tweets)
    /\ LET sorted_high == SortByEngagement(high_engagement_tweets)
           top == TopConversations(top_conversations)
       IN  /\ high_engagement_tweets' = sorted_high
           /\ top_conversations' = top
           /\ analysis_results' =
                 [hashtags |-> analysis_results.hashtags,
                  phrases |-> analysis_results.phrases,
                  high_engagement |-> Take(sorted_high, 3),
                  top_conversations |-> top]
    /\ pc' = "summary"
    /\ UNCHANGED <<entry, collectVars, tweets, idx, analyzerVars, m_scores,
                   tweet_count, outVars>>

\* summary = create_summary(analysis_results, tweet_count)
CreateSummary ==
    /\ pc = "summary"
    /\ summary' = create_summary(analysis_results, tweet_count)
    /\ pc' = IF entry = "run_twitter_bot" THEN "post" ELSE "done"
    /\ UNCHANGED <<entry, collectVars, tweets, idx, analyzerVars,
                   analysis_results, mainVars, tweet_count, posted, saved>>

\* write_client.create_tweet(text=summary); an exception it raises is caught
\* and printed
PostSummary ==
    /\ pc = "post"
    /\ posted' = Append(posted, summary)
    /\ pc' = "save"
    /\ UNCHANGED <<entry, collectVars, tweets, idx, analyzerVars,
                   analysis_results, mainVars, tweet_count, summary, saved>>

\* the write of the daily snapshot; an exception it raises is caught and
\* printed
SaveResults ==
    /\ pc = "save"
    /\ saved' = Append(saved, [date |-> current_date,
                               tweet_count |-> tweet_count,
                               top_hashtags |-> analysis_results.hashtags,
                               top_phrases |-> analysis_results.phrases,
                               summary |-> summary])
    /\ pc' = "done"
    /\ UNCHANGED <<entry, collectVars, tweets, idx, analyzerVars,
                   analysis_results, mainVars, tweet_count, summary, posted>>

Next ==
    \/ SearchAttempt
    \/ PostFallback
    \/ BeginAnalysis
    \/ AnalyzePost
    \/ TallyHashtags
    \/ MinePhrases
    \/ ProcessTweet
    \/ SortAndStore
    \/ CreateSummary
    \/ PostSummary
    \/ SaveResults

Spec == Init /\ [][Next]_vars

\* the collection loop keeps iterating while its condition holds: the
\* program is sequential, and the search call and the sleep both return
FairSpec == Spec /\ WF_vars(SearchAttempt)

(***************************************************************************)
(* What the claims speak of, stated from the posts alone.                  *)
(***************************************************************************)
\* the largest score, in tenths, the weight is compared over
MaxWeightScore == 350

\* the value of a metric of a post, 0 when the key or the mapping is missing
MetricOrZero(tweet, key) ==
    IF /\ "public_metrics" \in DOMAIN tweet
       /\ tweet.public_metrics.type = "dict"
       /\ key \in DOMAIN tweet.public_metrics.items
    THEN tweet.public_metrics.items[key]
    ELSE 0

\* like_count + 2*retweet_count + 1.5*reply_count + 1.8*quote_count, in tenths
ClaimedScore(tweet) ==
    10 * MetricOrZero(tweet, "like_count") + 20 * MetricOrZero(tweet, "retweet_count")
    + 15 * MetricOrZero(tweet, "reply_count") + 18 * MetricOrZero(tweet, "quote_count")

\* max(1, floor(score / 10))
ClaimedWeight(score) == Max(1, score \div 100)

\* the hashtags listed on a post, lower-cased, in order
ListedTags(tweet) ==
    IF /\ "entities" \in DOMAIN tweet
       /\ tweet.entities.type = "dict"
       /\ "hashtags" \in DOMAIN tweet.entities.items
    THEN [i \in DOMAIN tweet.entities.items.hashtags |->
             Lower(tweet.entities.items.hashtags[i].tag)]
    ELSE <<>>

\* the hashtags of the input in the order they are met
InputTags == Flatten([i \in DOMAIN tweets |-> ListedTags(tweets[i])])

\* for every tag of the input, the position at which it is first met
FirstSeen ==
    LET tags == InputTags
    IN  [tag \in Range(tags) |->
            CHOOSE i \in DOMAIN tags :
                tags[i] = tag /\ \A j \in 1..(i - 1) : tags[j] # tag]

\* the count the tally holds for a tag, 0 for a tag it does not hold
TallyOf(tag) ==
    IF \E k \in DOMAIN hashtag_counts : hashtag_counts[k][1] = tag
    THEN hashtag_counts[CHOOSE k \in DOMAIN hashtag_counts : hashtag_counts[k][1] = tag][2]
    ELSE 0

\* the sum over the posts of (times listed) x (weight of the post)
ExpectedTally(tag) ==
    Sum([i \in DOMAIN tweets |->
            Occurrences(ListedTags(tweets[i]), tag) * ClaimedWeight(ClaimedScore(tweets[i]))])

\* C1: once the hashtags are tallied, the weighted count of every tag is the
\* sum over the posts of the times the tag is listed on the post times
\* max(1, floor(score / 10)); the tally holds no other tag; the weight is at
\* least 1 and does not decrease when the score grows.
C1_WeightedTally ==
    pc = "mine" =>
        /\ \A tag \in Range(InputTags) : TallyOf(tag) = ExpectedTally(tag)
        /\ \A k \in DOMAIN hashtag_counts :
              /\ hashtag_counts[k][1] \in Range(InputTags)
              /\ \A l \in DOMAIN hashtag_counts : l # k => hashtag_counts[l][1] # hashtag_counts[k][1]
        /\ \A sc \in 0..MaxWeightScore :
              /\ HashtagWeight(sc) = ClaimedWeight(sc)
              /\ HashtagWeight(sc) >= 1
              /\ HashtagWeight(sc) <= HashtagWeight(sc + 1)

\* C1 witness: a tally over a post of weight 2 and a post of weight 1 that
\* list the same tag, the first of them twice
C1_Witness ==
    /\ pc = "mine"
    /\ \E i, j \in DOMAIN tweets :
          /\ ClaimedWeight(ClaimedScore(tweets[i])) = 2
          /\ ClaimedWeight(ClaimedScore(tweets[j])) = 1
          /\ Occurrences(ListedTags(tweets[i]), <<"u", "k">>) = 1
          /\ Occurrences(ListedTags(tweets[i]), <<"n", "a", "i", "j", "a">>) = 2
          /\ Occurrences(ListedTags(tweets[j]), <<"u", "k">>) = 1
    /\ TallyOf(<<"u", "k">>) >= 3
    /\ TallyOf(<<"n", "a", "i", "j", "a">>) >= 4

\* C2: the score of every post is the formula with the missing metrics
\* counted as 0, it is never negative, computing it never fails, and the two
\* call sites give the same value.
C2_ScoreNeverFails ==
    /\ pc # "crashed"
    /\ \A i \in DOMAIN a_scores :
          a_scores[i] = ClaimedScore(tweets[i]) /\ a_scores[i] >= 0
    /\ \A i \in DOMAIN m_scores :
          m_scores[i] = ClaimedScore(tweets[i]) /\ m_scores[i] = a_scores[i]

\* the tally entries left out of the top list
OmittedTags == {k \in DOMAIN hashtag_counts :
                   \A i \in DOMAIN top_hashtags : top_hashtags[i] # hashtag_counts[k]}

\* C3: the hashtag list has at most 10 entries, all of them entries of the
\* tally, is non-increasing by count, holds no tag of a lower count than an
\* omitted tag, and orders and selects tags of equal count by the order in
\* which they were first met in the input.
C3_TopHashtags ==
    pc = "mine" =>
        LET first == FirstSeen
        IN  /\ Len(top_hashtags) = Min(10, Len(hashtag_counts))
            /\ \A i \in DOMAIN top_hashtags :
                  \E k \in DOMAIN hashtag_counts : hashtag_counts[k] = top_hashtags[i]
            /\ \A i, j \in DOMAIN top_hashtags :
                  i < j =>
                     /\ top_hashtags[i][2] >= top_hashtags[j][2]
                     /\ top_hashtags[i][2] = top_hashtags[j][2]
                           => first[top_hashtags[i][1]] < first[top_hashtags[j][1]]
            /\ \A k \in OmittedTags : \A i \in DOMAIN top_hashtags :
                  /\ top_hashtags[i][2] >= hashtag_counts[k][2]
                  /\ top_hashtags[i][2] = hashtag_counts[k][2]
                        => first[top_hashtags[i][1]] < first[hashtag_counts[k][1]]

\* C3 witness: more than 10 tags tallied, two listed tags of equal count and
\* an omitted tag of the count of a listed one
C3_Witness ==
    /\ pc = "mine"
    /\ Len(hashtag_counts) > 10
    /\ Len(top_hashtags) = 10
    /\ top_hashtags[1][2] > top_hashtags[10][2]
    /\ top_hashtags[9][2] = top_hashtags[10][2]
    /\ \E k \in OmittedTags : hashtag_counts[k][2] = top_hashtags[10][2]

\* the result of run_twitter_bot's sort is stored and not yet rendered
HighEngagementStored == entry = "run_twitter_bot" /\ pc = "summary"

\* the high-engagement list is the top 3 of the posts of candidates: the best
\* by score, in descending order, posts of equal score in input order
IsTopThreeOf(candidates) ==
    LET he == analysis_results.high_engagement
        listed == {he[k].id : k \in DOMAIN he}
    IN  /\ Len(he) = Min(3, Cardinality(candidates))
        /\ \A k \in DOMAIN he :
              /\ he[k].id \in candidates
              /\ he[k].engagement = ClaimedScore(tweets[he[k].id])
              /\ he[k].text = tweets[he[k].id].text
        /\ \A k, l \in DOMAIN he :
              k < l =>
                 /\ he[k].engagement >= he[l].engagement
                 /\ he[k].engagement = he[l].engagement => he[k].id < he[l].id
        /\ \A o \in candidates \ listed : \A k \in DOMAIN he :
              /\ he[k].engagement >= ClaimedScore(tweets[o])
              /\ he[k].engagement = ClaimedScore(tweets[o]) => he[k].id < o

\* the posts whose score is above 10
HighPosts == {i \in DOMAIN tweets : ClaimedScore(tweets[i]) > 100}

\* C4 as claimed: the high-engagement list is the 3 highest-scoring posts of
\* the run, all posts when there are fewer than 3.
C4_TopThreeOfAllPosts == HighEngagementStored => IsTopThreeOf(DOMAIN tweets)

\* C4 amended: the high-engagement list is the 3 highest-scoring posts among
\* the posts whose score is above 10 (all of those when there are fewer than
\* 3), by score descending, posts of equal score in input order.
C4_TopThreeOfHighPosts == HighEngagementStored => IsTopThreeOf(HighPosts)

\* C4 witness: four posts above 10, one of them cut off by a tie, and a post
\* listed ahead of an earlier post of lower score
C4_Witness ==
    /\ HighEngagementStored
    /\ Cardinality(HighPosts) = 4
    /\ Len(analysis_results.high_engagement) = 3
    /\ analysis_results.high_engagement[2].engagement = analysis_results.high_engagement[3].engagement
    /\ analysis_results.high_engagement[1].id > analysis_results.high_engagement[2].id

\* the conversation id of a post, 0 for a post that has none
ConversationOf(tweet) ==
    IF "conversation_id" \in DOMAIN tweet /\ tweet.conversation_id.type = "int"
    THEN tweet.conversation_id.v
    ELSE 0

\* the first 100 characters of a text
First100(text) == [j \in 1..Min(100, Len(text)) |-> text[j]]

\* the buckets of convs are those of the first n posts
BucketsMatch(convs, n) ==
    LET seen == {ConversationOf(tweets[i]) : i \in 1..n} \ {0}
    IN  /\ {convs[k][1] : k \in DOMAIN convs} = seen
        /\ Len(convs) = Cardinality(seen)
        /\ \A k \in DOMAIN convs :
              LET members == {i \in 1..n : ConversationOf(tweets[i]) = convs[k][1]}
                  first == CHOOSE i \in members : \A j \in members : i <= j
              IN  /\ convs[k][2].count = Cardinality(members)
                  /\ convs[k][2].engagement =
                        Sum([i \in 1..n |-> IF i \in members THEN ClaimedScore(tweets[i]) ELSE 0])
                  /\ convs[k][2].sample_text = First100(tweets[first].text)

\* C5: after any prefix of the posts is processed, in either loop, there is
\* one bucket per conversation id seen, holding the number of posts of that
\* id, the sum of their scores and the first 100 characters of the first of
\* them; posts without a conversation id make no bucket.
C5_ConversationBuckets ==
    /\ pc = "engagement" => BucketsMatch(top_conversations, idx - 1)
    /\ pc = "analyze" => BucketsMatch(a_top_conversations, idx - 1)

\* C5 witness: in run_twitter_bot's loop, a thread of two posts of different
\* texts, the first longer than 100 characters, beside a post without thread
C5_Witness ==
    /\ pc = "engagement"
    /\ idx > 3
    /\ \E k \in DOMAIN top_conversations :
          /\ top_conversations[k][2].count >= 2
          /\ Len(top_conversations[k][2].sample_text) = 100
          /\ \E i \in 1..(idx - 1) :
                /\ ConversationOf(tweets[i]) = top_conversations[k][1]
                /\ Len(tweets[i].text) < 100
    /\ \E i \in 1..(idx - 1) : ConversationOf(tweets[i]) = 0

(***************************************************************************)
(* Reading a summary back: its lines, their kinds, its numbered entries.   *)
(***************************************************************************)
\* the line of s that starts at b, given the positions nl of its line breaks
LineAt(s, nl, b) ==
    LET after == {j \in nl : j >= b}
    IN  IF after = {} THEN SubSeq(s, b, Len(s))
        ELSE SubSeq(s, b, (CHOOSE j \in after : \A m \in after : j <= m) - 1)

\* s.split("\n")
LinesGiven(s, nl) ==
    LET starts == Ascending({1} \cup {j + 1 : j \in nl})
    IN  [k \in DOMAIN starts |-> LineAt(s, nl, starts[k])]

Lines(s) == LinesGiven(s, {j \in DOMAIN s : s[j] = "\n"})

\* a title without its line break
TitleLine(emoji, title) == <<emoji>> \o SubSeq(title, 1, Len(title) - 1)

HeaderLine == <<ChartEmoji>> \o HeaderTitle \o current_date \o <<" ", ChartEmoji>>

IsFooterLine(line) ==
    /\ Len(line) > Len(ActivityPrefix) + Len(ActivitySuffix)
    /\ SubSeq(line, 1, Len(ActivityPrefix)) = ActivityPrefix
    /\ SubSeq(line, Len(line) - Len(ActivitySuffix) + 1, Len(line)) = ActivitySuffix

\* what a line of a summary is
LineKind(line) ==
    IF line = <<>> THEN "blank"
    ELSE IF line = HeaderLine THEN "header"
    ELSE IF line = TitleLine(FireEmoji, HashtagsTitle) THEN "hashtags"
    ELSE IF line = TitleLine(SpeechEmoji, PhrasesTitle) THEN "phrases"
    ELSE IF line = TitleLine(SpeakingEmoji, DiscussionsTitle) THEN "discussions"
    ELSE IF line = TitleLine(StarEmoji, EngagingTitle) THEN "post"
    ELSE IF line[1] \in Range(DigitChars) THEN "entry"
    ELSE IF line[1] = "\"" THEN "quote"
    ELSE IF IsFooterLine(line) THEN "footer"
    ELSE IF Len(line) > Len(EngagementScoreLabel)
            /\ SubSeq(line, 1, Len(EngagementScoreLabel)) = EngagementScoreLabel THEN "score"
    ELSE "other"

Kinds(lines) == [k \in DOMAIN lines |-> LineKind(lines[k])]

\* the positions of the lines of a kind
Places(kinds, kind) == {k \in DOMAIN kinds : kinds[k] = kind}

\* the number of lines of kind "entry" that follow line t without a gap
EntriesAfter(kinds, t) ==
    Cardinality({k \in (t + 1)..Len(kinds) : \A m \in (t + 1)..k : kinds[m] = "entry"})

\* the value of a string of decimal digits
ParseInt(digits) ==
    LET value[n \in 0..Len(digits)] ==
            IF n = 0 THEN 0
            ELSE value[n - 1] * 10
                 + (CHOOSE d \in 0..9 : DigitChars[d + 1] = digits[n])
    IN  value[Len(digits)]

\* the (label, count) of a numbered line "i. <mark>label (count ...)", where
\* the mark is the skip characters after "i. "
ParseEntry(line, skip) ==
    LET dot == CHOOSE i \in DOMAIN line :
                  line[i] = "." /\ \A j \in 1..(i - 1) : line[j] # "."
        open == CHOOSE i \in DOMAIN line :
                   line[i] = "(" /\ \A j \in (i + 1)..Len(line) : line[j] # "("
        stop == CHOOSE i \in (open + 1)..Len(line) :
                   line[i] = " " /\ \A j \in (open + 1)..(i - 1) : line[j] # " "
    IN  <<SubSeq(line, dot + 2 + skip, open - 2), ParseInt(SubSeq(line, open + 1, stop - 1))>>

\* the (label, count) pairs of the numbered lines of the block of a title
ParseSection(lines, kind, skip) ==
    LET kinds == Kinds(lines)
        at == Places(kinds, kind)
    IN  IF at = {} THEN <<>>
        ELSE LET t == CHOOSE k \in at : \A m \in at : k <= m
             IN  [k \in 1..EntriesAfter(kinds, t) |-> ParseEntry(lines[t + k], skip)]

\* the list of analysis_results under a key, empty when the key is missing
SourceList(key) ==
    IF key \in DOMAIN analysis_results THEN analysis_results[key] ELSE <<>>

\* a summary has been rendered and returned
Rendered == pc = "done" /\ summary # <<>>

\* C6: on an empty post sequence analyze_trending_topics does not fail and
\* returns empty hashtag and phrase lists, and create_summary on that result
\* with count 0 returns the header line, the blank line that ends the header
\* and the footer line, nothing else.
C6_EmptyInput ==
    (entry = "analyze_trending_topics" /\ tweets = <<>>) =>
        /\ pc # "crashed"
        /\ pc \in {"summary", "done"} =>
              /\ mining = "skipped"
              /\ analysis_results = [hashtags |-> <<>>, phrases |-> <<>>]
        /\ pc = "done" =>
              Lines(summary) = <<HeaderLine, <<>>,
                                 ActivityPrefix \o <<"0">> \o ActivitySuffix>>

\* C6 witness: the analysis of no post has returned and its summary is made
C6_Witness ==
    /\ entry = "analyze_trending_topics"
    /\ tweets = <<>>
    /\ pc = "done"
    /\ Len(summary) > Len(HeaderLine)

\* the blocks of a summary are in order, each at most once and exactly when
\* its list is not empty, between one header and one footer
SectionsInOrder(kinds) ==
    LET at(kind) == Places(kinds, kind)
        place(kind) == CHOOSE k \in at(kind) : TRUE
        blocks == <<"hashtags", "phrases", "discussions", "post">>
        source == <<"hashtags", "phrases", "top_conversations", "high_engagement">>
        limit == <<5, 5, 3, 0>>
    IN  /\ at("header") = {1}
        /\ at("footer") = {Len(kinds)}
        /\ at("other") = {}
        /\ \A b \in DOMAIN blocks :
              /\ Cardinality(at(blocks[b])) <= 1
              /\ at(blocks[b]) # {} <=> SourceList(source[b]) # <<>>
              /\ at(blocks[b]) # {} =>
                    /\ 1 < place(blocks[b]) /\ place(blocks[b]) < Len(kinds)
                    /\ EntriesAfter(kinds, place(blocks[b]))
                          = Min(limit[b], Len(SourceList(source[b])))
              /\ \A c \in DOMAIN blocks :
                    (b < c /\ at(blocks[b]) # {} /\ at(blocks[c]) # {})
                        => place(blocks[b]) < place(blocks[c])
        /\ Cardinality(at("entry")) =
              Min(5, Len(SourceList("hashtags"))) + Min(5, Len(SourceList("phrases")))
              + Min(3, Len(SourceList("top_conversations")))
        /\ at("post") # {} =>
              /\ kinds[place("post") + 1] = "quote"
              /\ kinds[place("post") + 2] = "score"
        /\ Cardinality(at("quote")) = Cardinality(at("post"))
        /\ Cardinality(at("score")) = Cardinality(at("post"))

\* C7: a summary holds the header, the hashtags, phrases, discussions and
\* post blocks and the footer in that order; header and footer once, a block
\* at most once and exactly when its list is not empty; at most 5 hashtags,
\* 5 phrases, 3 discussions and 1 post are listed.
C7_SectionOrder == Rendered => SectionsInOrder(Kinds(Lines(summary)))

\* C7 witness: a summary of all four blocks made from lists longer than
\* what is shown
C7_Witness ==
    /\ Rendered
    /\ Len(SourceList("hashtags")) > 5
    /\ Len(SourceList("phrases")) > 5
    /\ Len(SourceList("top_conversations")) > 3
    /\ Len(SourceList("high_engagement")) > 1

\* C8: when phrase mining raises on 2 or more posts, the analysis still
\* returns: an empty phrase list, and the hashtag list tallied before mining,
\* which is the list a successful mining returns.
C8_MiningFailure ==
    mining = "raised" =>
        /\ Len(tweets) >= 2
        /\ pc # "crashed"
        /\ analysis_results.phrases = <<>>
        /\ analysis_results.hashtags = top_hashtags
        /\ top_hashtags = Take(top_hashtags, 10)
        /\ \A i \in DOMAIN top_hashtags : TallyOf(top_hashtags[i][1]) = top_hashtags[i][2]
        /\ Len(top_hashtags) = Min(10, Len(hashtag_counts))

\* C8 witness: mining raised on posts that carry hashtags, and the analysis
\* has returned to the summary
C8_Witness ==
    /\ mining = "raised"
    /\ pc = "done"
    /\ Len(tweets) >= 2
    /\ analysis_results.hashtags # <<>>

\* C9: for a result of at most 5 hashtags and 5 phrases, the numbered lines
\* of the hashtags and the phrases blocks of the summary parse back into the
\* two lists, in order and value.
C9_RoundTrip ==
    (Rendered /\ Len(analysis_results.hashtags) <= 5 /\ Len(analysis_results.phrases) <= 5) =>
        /\ ParseSection(Lines(summary), "hashtags", 1) = analysis_results.hashtags
        /\ ParseSection(Lines(summary), "phrases", 0) = analysis_results.phrases

\* C9 witness: a summary of 5 hashtags and 5 phrases with counts of one, two
\* and three digits
C9_Witness ==
    /\ Rendered
    /\ Len(analysis_results.hashtags) = 5
    /\ Len(analysis_results.phrases) = 5
    /\ analysis_results.hashtags[1][2] >= 100
    /\ analysis_results.phrases[1][2] >= 10
    /\ analysis_results.phrases[5][2] < 10

\* the waits of a collection loop: 15 then 30 seconds
Waits == <<InitialRetryDelay, 2 * InitialRetryDelay>>

\* what every state of a run of run_twitter_bot satisfies: at most 3 search
\* attempts, all but the last rate limited; the data set assigned is the
\* response of the successful attempt, or empty after the third rate-limit
\* error or another error; one wait of 15 then 30 seconds after each attempt
\* that is followed by another; on an empty data set only the fallback
\* message is posted and nothing is analysed, summarised or saved
CollectionLoopState ==
    entry = "run_twitter_bot" =>
        /\ attempts <= 3
        /\ attempts = Len(outcomes)
        /\ \A k \in 1..(attempts - 1) : outcomes[k].kind = "TooManyRequests"
        /\ pc = "collect" =>
              /\ attempts < 3
              /\ tweet_data = None
              /\ \A k \in DOMAIN outcomes : outcomes[k].kind = "TooManyRequests"
              /\ sleeps = SubSeq(Waits, 1, attempts)
        /\ pc # "collect" =>
              /\ attempts >= 1
              /\ sleeps = SubSeq(Waits, 1, attempts - 1)
              /\ outcomes[attempts].kind = "ok"
                    => tweet_data = Response(outcomes[attempts].data)
              /\ outcomes[attempts].kind = "Exception" => tweet_data = Response(<<>>)
              /\ outcomes[attempts].kind = "TooManyRequests"
                    => attempts = 3 /\ tweet_data = Response(<<>>)
              /\ tweet_data.data = <<>> =>
                    /\ pc \in {"collected", "done"}
                    /\ posted = IF pc = "done" THEN <<FallbackMessage>> ELSE <<>>
                    /\ mining = "none" /\ a_scores = <<>> /\ m_scores = <<>>
                    /\ summary = <<>> /\ saved = <<>>
              /\ tweet_data.data # <<>> => FallbackMessage \notin Range(posted)

\* C10: under every sequence of outcomes of the search call the collection
\* loop of run_twitter_bot ends, after at most 3 attempts, with a data set
\* assigned: the response of the first success, or empty after the third
\* rate-limit error or the first other error; it waits 15 then 30 seconds
\* between attempts only, and an empty data set leads to the fallback post
\* with no analysis, no summary post and no snapshot.
C10_CollectionLoop ==
    /\ []CollectionLoopState
    /\ (entry = "run_twitter_bot") ~> (pc # "collect" /\ tweet_data # None)

\* C10 witness: a run that ended on the fallback after three rate-limit
\* errors and two waits
C10_Witness ==
    /\ entry = "run_twitter_bot"
    /\ pc = "done"
    /\ attempts = 3
    /\ outcomes[3].kind = "TooManyRequests"
    /\ sleeps = <<15, 30>>
    /\ posted = <<FallbackMessage>>

=============================================================================
